---- MODULE Spec2Model ----
(***************************************************************************)
(* State-machine model of VideoCompositor (src/main.js, the revision that  *)
(* starts at line 985): the layer model, the asynchronous source loading,  *)
(* the render loop and the export pipeline.                                *)
(*                                                                         *)
(* Units.  JavaScript durations are seconds (floats); the model keeps a    *)
(* finite duration as an integer number of milliseconds, so that           *)
(* `duration * 1000` of the source is the stored integer itself.           *)
(* NaN, Infinity and undefined are kept as distinct tagged values.         *)
(*                                                                         *)
(* Every handler is one action: JavaScript runs a handler to its end       *)
(* before the next callback is delivered.  Writes that only reach the DOM  *)
(* and are read by no handler (syncControls, the button label, the         *)
(* timeline readout of updateTimeline, the alert) are left out, as is      *)
(* the pointer drag, which writes x and y of the selected layer as the     *)
(* position controls do.  Of currentTime the model keeps whether it is 0   *)
(* (rewound) or past 0.                                                    *)
(*                                                                         *)
(* Numbers.  A JavaScript number a control or a division produces is kept  *)
(* as an exact fraction n / d; d = 0 stands for Infinity (n > 0),          *)
(* -Infinity (n < 0) and NaN (n = 0).  Rounding of doubles is not          *)
(* modelled.  Positions are whole pixels.                                  *)
(***************************************************************************)
EXTENDS Integers, Sequences, FiniteSets, TLC

\* ------------------------------------------------------------------ bounds
MaxUploads == 2       \* files selected by the user in one run
MaxExports == 2       \* clicks on the export button in one run
MaxUserOps == 2       \* files selected plus export clicks in one run
MaxTicks == 3         \* timer ticks followed per export (all in ExportSpec)
MaxEdits == 2         \* files selected plus control inputs in one editing run
MaxChunks == 2        \* blobs a recorder delivers before it is stopped

\* ------------------------------------------------------- program constants
TickMs == 100           \* setInterval period and the elapsed increment
DefaultSeconds == 5     \* `|| 5`
MsPerSecond == 1000     \* `* 1000`
MaxProgress == 99       \* Math.min(..., 99)
CanvasWidth == 1920     \* this.resolution.width
CanvasHeight == 1080    \* this.resolution.height
PlaceholderWidth == 1280
PlaceholderHeight == 720
PosterDefaultWidth == 1920    \* el.videoWidth || 1920
PosterDefaultHeight == 1080   \* el.videoHeight || 1080

Mp4Type == "video/mp4; codecs=avc1.42E01E"
WebmType == "video/webm; codecs=vp9"

LayerKeys == {"background", "character", "overlay"}
\* A slip in draw(): the three drawLayer calls are written top layer first.
LayerOrderTopFirst == <<"overlay", "character", "background">>
\* Object.values(this.layers) / the three drawLayer calls, in order
LayerOrder == <<"background", "character", "overlay">>

\* ------------------------------------------------------ JavaScript numbers
\* A media element's duration: undefined (not a media element), NaN, a
\* finite number of milliseconds, or Infinity.
Undef == [k |-> "undefined", ms |-> 0]
NaN == [k |-> "NaN", ms |-> 0]
Inf == [k |-> "Infinity", ms |-> 0]
Fin(ms) == [k |-> "finite", ms |-> ms]

\* JavaScript truthiness of a duration value: undefined, NaN and 0 are falsy.
Truthy(d) == d.k = "Infinity" \/ (d.k = "finite" /\ d.ms # 0)

\* Math.max(a, b) on two numbers that are finite or Infinity
MathMax(a, b) ==
    IF a.k = "Infinity" \/ b.k = "Infinity" THEN Inf
    ELSE IF a.ms >= b.ms THEN a ELSE b

\* Math.round(n / d) for n >= 0, d > 0: round half up
Round(n, d) == (2 * n + d) \div (2 * d)

Min(a, b) == IF a <= b THEN a ELSE b

\* The number n / d of a control value or of a division (d >= 0).
Num(n, d) == [n |-> n, d |-> d]
Zero == Num(0, 1)
NotANumber == Num(0, 0)

\* The same number in lowest terms, so that the products below stay small.
RECURSIVE Gcd(_, _)
Gcd(a, b) == IF b = 0 THEN a ELSE Gcd(b, a % b)
Abs(n) == IF n < 0 THEN 0 - n ELSE n
Lowest(a) ==
    IF a.d = 0
    THEN Num(IF a.n > 0 THEN 1 ELSE IF a.n < 0 THEN 0 - 1 ELSE 0, 0)
    ELSE LET g == Gcd(Abs(a.n), a.d) IN Num(a.n \div g, a.d \div g)

\* a + b, a - b, a * b and a / 2 of JavaScript on such numbers:
\* Infinity - Infinity and Infinity * 0 are NaN, NaN is absorbing.
Plus(a, b) ==
    IF a.d = 0 /\ b.d = 0
    THEN IF a.n * b.n > 0 THEN Lowest(a) ELSE NotANumber
    ELSE Lowest(Num(a.n * b.d + b.n * a.d, a.d * b.d))
Minus(a, b) == Plus(a, Num(0 - b.n, b.d))
Times(a, b) ==
    LET p == Lowest(a)
        q == Lowest(b)
    IN  Lowest(Num(p.n * q.n, p.d * q.d))
Half(a) == Lowest(Num(a.n, 2 * a.d))

\* a === b on numbers: NaN equals nothing, not even itself.
SameNumber(a, b) ==
    /\ ~(a.d = 0 /\ a.n = 0)
    /\ ~(b.d = 0 /\ b.n = 0)
    /\ IF a.d = 0 \/ b.d = 0
       THEN a.d = 0 /\ b.d = 0 /\ a.n * b.n > 0
       ELSE a.n * b.d = b.n * a.d

\* parseFloat(e.target.value) for the texts a number control can hold
ParseFloat(text) ==
    CASE text = "-3" -> Num(0 - 3, 1)
      [] text = "-0.5" -> Num(0 - 1, 2)
      [] text = "0" -> Num(0, 1)
      [] text = "0.05" -> Num(1, 20)
      [] text = "0.1" -> Num(1, 10)
      [] text = "0.5" -> Num(1, 2)
      [] text = "1" -> Num(1, 1)
      [] text = "1.5" -> Num(3, 2)
      [] text = "2" -> Num(2, 1)
      [] text = "7" -> Num(7, 1)
      [] OTHER -> NotANumber

\* --------------------------------------------------------------- the files
\* What the user can select: the declared kind of the file, whether the
\* browser can decode it, and the metadata the decoded element reports.
Files ==
    { [name |-> "photo.png", isVideo |-> FALSE, decodes |-> TRUE,
       w |-> 4, h |-> 2, dur |-> Undef],
      [name |-> "clip.mp4", isVideo |-> TRUE, decodes |-> TRUE,
       w |-> 2, h |-> 4, dur |-> Fin(250)],
      [name |-> "recorded.webm", isVideo |-> TRUE, decodes |-> TRUE,
       w |-> 0, h |-> 0, dur |-> Inf],
      [name |-> "prores.mov", isVideo |-> TRUE, decodes |-> FALSE,
       w |-> 0, h |-> 0, dur |-> NaN] }

NoElem == 0
NoPoster == [from |-> NoElem, width |-> 0, height |-> 0]

VARIABLES
    layers,         \* this.layers
    elems,          \* the heap of elements created by handleUpload
    loads,          \* load callbacks not yet delivered
    posterTimers,   \* setTimeout(..., 500) callbacks not yet delivered
    selectedLayer,  \* this.selectedLayer
    duration,       \* this.duration
    isPlaying,      \* this.isPlaying
    isExporting,    \* this.isExporting
    overlayHidden,  \* #loading-overlay has class hidden
    progress,       \* text of #export-progress, as a number
    supported,      \* the types MediaRecorder.isTypeSupported accepts
    sessions,       \* one record per call of exportVideo
    downloads,      \* the a.click() downloads, in order
    rafPending,     \* a requestAnimationFrame(render) callback is pending
    resolution,     \* this.resolution, which is also the canvas size
    edits,          \* input events the controls have delivered so far
    offCanvas       \* this.offCanvas: the frame of the applyChromaKey call

vars == <<layers, elems, loads, posterTimers, selectedLayer, duration,
          isPlaying, isExporting, overlayHidden, progress, supported,
          sessions, downloads, rafPending, resolution, edits, offCanvas>>

\* ------------------------------------------------------------- constructor
\* A scale is kept as the exact fraction n / d.
One == [n |-> 1, d |-> 1]

\* tolerance: 0.1
DefaultTolerance == [n |-> 1, d |-> 10]

\* chromaColor: '#00ff00', character by character
DefaultColor == <<"#", "0", "0", "f", "f", "0", "0">>

NewLayer ==
    [element |-> NoElem, type |-> "none", x |-> Zero, y |-> Zero,
     scale |-> One,
     opacity |-> One, chromaKey |-> FALSE, chromaColor |-> DefaultColor,
     tolerance |-> DefaultTolerance, posterFrame |-> NoPoster]

\* A pixel of a canvas that has just been created: transparent black.
Blank == [r |-> 0, g |-> 0, b |-> 0, a |-> 0]

\* this.offCanvas before the first applyChromaKey call: `drawn` is the
\* pixel offCtx.drawImage put there, `data` the pixel putImageData wrote.
NewOffCanvas == [drawn |-> Blank, data |-> Blank, keyed |-> FALSE]

\* The constructor, then init(): resizeCanvas and the first render() call,
\* which draws three empty layers and requests the next frame.  The page
\* starts with the loading overlay hidden and the progress readout at 0;
\* what the runtime's MediaRecorder supports is fixed for the run.
Init ==
    /\ layers = [k \in LayerKeys |-> NewLayer]
    /\ elems = << >>
    /\ loads = {}
    /\ posterTimers = {}
    /\ selectedLayer = "character"
    /\ duration = Fin(0)
    /\ isPlaying = FALSE
    /\ isExporting = FALSE
    /\ overlayHidden = TRUE
    /\ progress = 0
    /\ supported \in SUBSET {Mp4Type, WebmType}
    /\ sessions = << >>
    /\ downloads = << >>
    /\ rafPending = TRUE
    /\ resolution = [width |-> CanvasWidth, height |-> CanvasHeight]
    /\ edits = 0
    /\ offCanvas = NewOffCanvas

\* ------------------------------------------------------------ handleUpload
\* The element handleUpload creates for a file, before it has loaded.
NewElement(file) ==
    [kind |-> IF file.isVideo THEN "video" ELSE "image",
     name |-> file.name, decodes |-> file.decodes,
     w |-> file.w, h |-> file.h, dur |-> file.dur,
     muted |-> file.isVideo, paused |-> TRUE, bound |-> FALSE,
     loop |-> FALSE, rewound |-> TRUE]

\* The placeholder object video.onerror builds.
Placeholder(name) ==
    [kind |-> "placeholder", name |-> name, decodes |-> FALSE,
     w |-> PlaceholderWidth, h |-> PlaceholderHeight, dur |-> Undef,
     muted |-> FALSE, paused |-> TRUE, bound |-> FALSE,
     loop |-> FALSE, rewound |-> TRUE]

\* handleUpload(event, layerKey) up to the point where it waits for the
\* element to load: the element exists, its load callback is pending.
HandleUpload(layerKey, file) ==
    /\ Len(elems) < MaxUploads
    /\ elems' = Append(elems, NewElement(file))
    /\ loads' = loads \cup {[el |-> Len(elems) + 1, layerKey |-> layerKey]}
    /\ UNCHANGED <<layers, posterTimers, selectedLayer, duration, isPlaying,
                   isExporting, overlayHidden, progress, supported, sessions,
                   downloads, rafPending, resolution,
                   edits, offCanvas>>

\* el.videoWidth || el.width and el.videoHeight || el.height
NatW(e) == e.w
NatH(e) == e.h

\* A slip in the auto-fit: the canvas' orientation is not looked at.
AutoFitIgnoresCanvas(layerKey, e, isError) ==
    IF layerKey = "background" \/ ~isError
    THEN IF NatH(e) > NatW(e)
         THEN [n |-> resolution.height, d |-> NatH(e)]
         ELSE IF NatW(e) > NatH(e)
         THEN [n |-> resolution.width, d |-> NatW(e)]
         ELSE One
    ELSE One

\* "Smart auto-fit" of setupElement: the scale stored for a new source.
AutoFit(layerKey, e, isError) ==
    IF layerKey = "background" \/ ~isError
    THEN IF NatH(e) > NatW(e) /\ resolution.height < resolution.width
         THEN [n |-> resolution.height, d |-> NatH(e)]
         ELSE IF NatW(e) > NatH(e) /\ resolution.width < resolution.height
         THEN [n |-> resolution.width, d |-> NatW(e)]
         ELSE One
    ELSE One

\* A slip in setupElement: the type of the upload is stored also when the
\* element is the placeholder of a failed load.
SetupElementKeepsType(layerKey, id, e, isError) ==
    LET type == IF elems[id].kind = "video" THEN "video" ELSE "image"
    IN  /\ layers' = [layers EXCEPT ![layerKey] =
               [@ EXCEPT !.element = id,
                         !.type = type,
                         !.x = Zero, !.y = Zero,
                         !.scale = AutoFit(layerKey, e, isError)]]
        /\ duration' =
               IF layerKey = "background" /\ ~isError
               THEN MathMax(duration, IF Truthy(e.dur) THEN e.dur ELSE Fin(0))
               ELSE duration
        /\ posterTimers' =
               IF type = "video" /\ ~isError
               THEN posterTimers \cup {[el |-> id, layerKey |-> layerKey]}
               ELSE posterTimers
        /\ selectedLayer' = layerKey

\* setupElement(el, isError) of handleUpload, for the element `id` that
\* now is `e`.  posterFrame is not among the fields it writes.
SetupElement(layerKey, id, e, isError) ==
    LET type == IF elems[id].kind = "video" THEN "video" ELSE "image"
    IN  /\ layers' = [layers EXCEPT ![layerKey] =
               [@ EXCEPT !.element = id,
                         !.type = IF isError THEN "placeholder" ELSE type,
                         !.x = Zero, !.y = Zero,
                         !.scale = AutoFit(layerKey, e, isError)]]
        /\ duration' =
               IF layerKey = "background" /\ ~isError
               THEN MathMax(duration, IF Truthy(e.dur) THEN e.dur ELSE Fin(0))
               ELSE duration
        /\ posterTimers' =
               IF type = "video" /\ ~isError
               THEN posterTimers \cup {[el |-> id, layerKey |-> layerKey]}
               ELSE posterTimers
        /\ selectedLayer' = layerKey

\* img.onload, video.onloadedmetadata or video.onerror is delivered.
LoadCallback(p) ==
    /\ p \in loads
    /\ loads' = loads \ {p}
    /\ LET e == elems[p.el]
           isError == e.kind = "video" /\ ~e.decodes
           e2 == IF isError THEN Placeholder(e.name)
                 ELSE IF e.kind = "video" THEN [e EXCEPT !.rewound = TRUE]
                 ELSE e
       IN  /\ elems' = [elems EXCEPT ![p.el] = e2]
           /\ SetupElement(p.layerKey, p.el, e2, isError)
    /\ UNCHANGED <<isPlaying, isExporting, overlayHidden, progress,
                   supported, sessions, downloads, rafPending,
                   resolution,
                   edits, offCanvas>>

\* The canvas the poster timer draws the video into.
PosterCanvas(id) ==
    [from |-> id,
     width |-> IF elems[id].w # 0 THEN elems[id].w ELSE PosterDefaultWidth,
     height |-> IF elems[id].h # 0 THEN elems[id].h ELSE PosterDefaultHeight]

\* The setTimeout callback of setupElement, 500 ms after the load: it
\* stores the captured frame in the layer the upload was made for.
PosterTimer(t) ==
    /\ t \in posterTimers
    /\ posterTimers' = posterTimers \ {t}
    /\ layers' = [layers EXCEPT ![t.layerKey].posterFrame = PosterCanvas(t.el)]
    /\ UNCHANGED <<elems, loads, selectedLayer, duration, isPlaying,
                   isExporting, overlayHidden, progress, supported, sessions,
                   downloads, rafPending, resolution,
                   edits, offCanvas>>

\* ------------------------------------------------- controls and the preview
\* The change handler of #chroma-toggle: the checkbox flips the selected
\* layer's chromaKey.
ChromaToggle ==
    /\ layers' = [layers EXCEPT ![selectedLayer].chromaKey = ~@]
    /\ UNCHANGED <<elems, loads, posterTimers, selectedLayer, duration,
                   isPlaying, isExporting, overlayHidden, progress, supported,
                   sessions, downloads, rafPending, resolution, edits, offCanvas>>

\* What the control handlers leave alone.
untouched ==
    <<elems, loads, posterTimers, duration, isPlaying, isExporting,
      overlayHidden, progress, supported, sessions, downloads, rafPending,
      offCanvas>>

\* A slip in the click handler: the group's id is stored, not its layer.
SelectLayerStoresId(k) ==
    /\ selectedLayer' = CASE k = "background" -> "bg-group"
                          [] k = "character" -> "char-group"
                          [] k = "overlay" -> "overlay-group"
    /\ edits' = edits + 1
    /\ UNCHANGED <<layers, resolution, untouched>>

\* The click handler of a .control-group[data-layer]: the group's layer
\* becomes the selected one.
SelectLayer(k) ==
    /\ selectedLayer' = k
    /\ edits' = edits + 1
    /\ UNCHANGED <<layers, resolution, untouched>>

\* The input handler of the shared controls posX, posY, scale and opacity:
\* id.replace('pos', '').toLowerCase() names the field, parseFloat of the
\* control's text is stored in it.
SharedControl(id, text) ==
    /\ layers' =
          CASE id = "posX" ->
                 [layers EXCEPT ![selectedLayer].x = ParseFloat(text)]
            [] id = "posY" ->
                 [layers EXCEPT ![selectedLayer].y = ParseFloat(text)]
            [] id = "scale" ->
                 [layers EXCEPT ![selectedLayer].scale = ParseFloat(text)]
            [] id = "opacity" ->
                 [layers EXCEPT ![selectedLayer].opacity = ParseFloat(text)]
    /\ edits' = edits + 1
    /\ UNCHANGED <<selectedLayer, resolution, untouched>>

\* The input handler of #chroma-color.
ChromaColor(hex) ==
    /\ layers' = [layers EXCEPT ![selectedLayer].chromaColor = hex]
    /\ edits' = edits + 1
    /\ UNCHANGED <<selectedLayer, resolution, untouched>>

\* The input handler of #chroma-tolerance.
ChromaTolerance(text) ==
    /\ layers' = [layers EXCEPT ![selectedLayer].tolerance = ParseFloat(text)]
    /\ edits' = edits + 1
    /\ UNCHANGED <<selectedLayer, resolution, untouched>>

\* e.target.value.split('x').map(Number) for the options of #resolution
SplitX(text) ==
    CASE text = "1920x1080" -> [width |-> 1920, height |-> 1080]
      [] text = "1080x1920" -> [width |-> 1080, height |-> 1920]
      [] text = "1080x1080" -> [width |-> 1080, height |-> 1080]

\* A slip in the forEach: x is assigned twice and y not at all.
ResolutionChangeForgetsY(text) ==
    /\ SplitX(text) # resolution
    /\ resolution' = SplitX(text)
    /\ layers' = [k \in LayerKeys |-> [layers[k] EXCEPT !.x = Zero]]
    /\ edits' = edits + 1
    /\ UNCHANGED <<selectedLayer, untouched>>

\* The change handler of #resolution, delivered when another option is
\* chosen: the canvas is resized and every layer centred.
ResolutionChange(text) ==
    /\ SplitX(text) # resolution
    /\ resolution' = SplitX(text)
    /\ layers' = [k \in LayerKeys |->
                    [layers[k] EXCEPT !.x = Zero, !.y = Zero]]
    /\ edits' = edits + 1
    /\ UNCHANGED <<selectedLayer, untouched>>

\* A slip in fitLayer: the two dimensions exchanged.
FitScaleExchanged(dimension, e) ==
    IF dimension = "height"
    THEN Num(resolution.width, NatW(e))
    ELSE Num(resolution.height, NatH(e))

\* The scale fitLayer stores: canvas.height / elH or canvas.width / elW
FitScale(dimension, e) ==
    IF dimension = "height"
    THEN Num(resolution.height, NatH(e))
    ELSE Num(resolution.width, NatW(e))

\* fitLayer(dimension), the click handler of fit-v-btn and fit-h-btn.
FitLayer(dimension) ==
    /\ LET layer == layers[selectedLayer]
       IN  layers' =
              IF layer.element = NoElem THEN layers
              ELSE [layers EXCEPT ![selectedLayer] =
                      [layer EXCEPT
                          !.scale = FitScale(dimension, elems[layer.element]),
                          !.x = Zero, !.y = Zero]]
    /\ edits' = edits + 1
    /\ UNCHANGED <<selectedLayer, resolution, untouched>>

\* The click handler of center-btn.
Center ==
    /\ layers' = [layers EXCEPT ![selectedLayer] =
                    [@ EXCEPT !.x = Zero, !.y = Zero]]
    /\ edits' = edits + 1
    /\ UNCHANGED <<selectedLayer, resolution, untouched>>

\* The layers that hold a video element: layer.type === 'video' &&
\* layer.element
\* A slip in the test of the forEach loops: every source that is not an
\* image counts as a video.
VideoLayersNotImage ==
    {k \in LayerKeys : layers[k].type # "image" /\ layers[k].element # NoElem}

\* The layers the forEach loops act on: type 'video' with an element.
VideoLayers ==
    {k \in LayerKeys : layers[k].type = "video" /\ layers[k].element # NoElem}

\* togglePlayback(): only the background's video is played or paused.
TogglePlayback ==
    /\ isPlaying' = ~isPlaying
    /\ elems' = IF "background" \in VideoLayers
                THEN [elems EXCEPT ![layers["background"].element].paused =
                                        isPlaying]
                ELSE elems
    /\ UNCHANGED <<layers, loads, posterTimers, selectedLayer, duration,
                   isExporting, overlayHidden, progress, supported, sessions,
                   downloads, rafPending, resolution,
                   edits, offCanvas>>

\* Time passes on a video that plays: its playback position leaves 0.
Playback(id) ==
    /\ id \in DOMAIN elems
    /\ elems[id].kind = "video"
    /\ ~elems[id].paused
    /\ elems[id].rewound
    /\ elems' = [elems EXCEPT ![id].rewound = FALSE]
    /\ UNCHANGED <<layers, loads, posterTimers, selectedLayer, duration,
                   isPlaying, isExporting, overlayHidden, progress, supported,
                   sessions, downloads, rafPending, resolution,
                   edits, offCanvas>>

\* ------------------------------------------------------------- render loop
\* What drawLayer(key) draws from: nothing, the placeholder box, the cached
\* poster frame or the live element.
DrawSource(key) ==
    LET layer == layers[key]
    IN  IF layer.element = NoElem THEN "none"
        ELSE IF layer.type = "placeholder" THEN "placeholder"
        ELSE IF /\ layer.type = "video"
                /\ ~isExporting
                /\ key # "background"
                /\ layer.posterFrame # NoPoster
        THEN "poster"
        ELSE "live"

\* elW and elH of drawLayer for the source it draws from.
DrawW(key) ==
    IF DrawSource(key) = "poster" THEN layers[key].posterFrame.width
    ELSE NatW(elems[layers[key].element])
DrawH(key) ==
    IF DrawSource(key) = "poster" THEN layers[key].posterFrame.height
    ELSE NatH(elems[layers[key].element])

\* A slip in the geometry: the size is subtracted whole, so the position
\* anchors the rectangle's far corner instead of its centre.
DrawRectFromCorner(key) ==
    LET layer == layers[key]
        sw == Times(Num(DrawW(key), 1), layer.scale)
        sh == Times(Num(DrawH(key), 1), layer.scale)
    IN  [w |-> sw, h |-> sh,
         x |-> Minus(Plus(Half(Num(resolution.width, 1)), layer.x), sw),
         y |-> Minus(Plus(Half(Num(resolution.height, 1)), layer.y), sh)]

\* The rectangle drawLayer(key) draws into, for a layer that has a
\* source: sw, sh, dx and dy (pw, ph, px and py for a placeholder).
DrawRect(key) ==
    LET layer == layers[key]
        sw == Times(Num(DrawW(key), 1), layer.scale)
        sh == Times(Num(DrawH(key), 1), layer.scale)
    IN  [w |-> sw, h |-> sh,
         x |-> Minus(Plus(Half(Num(resolution.width, 1)), layer.x), Half(sw)),
         y |-> Minus(Plus(Half(Num(resolution.height, 1)), layer.y),
                     Half(sh))]

\* drawLayer(key) ends in an exception: applyChromaKey sizes the off-screen
\* canvas to the source's natural size and getImageData rejects a
\* rectangle of width or height 0 (IndexSizeError).
DrawLayerThrows(key) ==
    /\ DrawSource(key) \in {"poster", "live"}
    /\ layers[key].chromaKey
    /\ (DrawW(key) = 0 \/ DrawH(key) = 0)

\* The position in LayerOrder of the first layer whose drawLayer throws,
\* or 4 when draw() runs to its end.
FirstThrow ==
    IF DrawLayerThrows(LayerOrder[1]) THEN 1
    ELSE IF DrawLayerThrows(LayerOrder[2]) THEN 2
    ELSE IF DrawLayerThrows(LayerOrder[3]) THEN 3
    ELSE 4

\* draw(): clearRect, then the three drawLayer calls in order; an
\* exception leaves the later layers undrawn.
Draw ==
    [k \in LayerKeys |->
        LET i == CHOOSE j \in 1..3 : LayerOrder[j] = k
        IN  IF i < FirstThrow THEN DrawSource(k)
            ELSE IF i = FirstThrow THEN "threw"
            ELSE "undrawn"]

\* One call on the canvas' 2D context, made for a layer.
Call(op, key) == [op |-> op, layer |-> key]

\* A slip in drawLayer: the context is saved and the opacity applied
\* before the test for a missing element.
LayerCallsSaveFirst(key) ==
    IF DrawSource(key) = "none"
    THEN <<Call("save", key), Call("globalAlpha", key)>>
    ELSE IF DrawSource(key) = "placeholder"
    THEN <<Call("save", key), Call("globalAlpha", key),
           Call("fillRect", key), Call("strokeRect", key),
           Call("fillText", key), Call("fillText", key),
           Call("restore", key)>>
    ELSE IF DrawLayerThrows(key)
    THEN <<Call("save", key), Call("globalAlpha", key)>>
    ELSE <<Call("save", key), Call("globalAlpha", key),
           Call("drawImage", key), Call("restore", key)>>

\* The calls drawLayer(key) makes on this.ctx, in order: none for a layer
\* without an element; the box and the two lines of text for a
\* placeholder; otherwise save, globalAlpha, drawImage (of the source or,
\* with the chroma key, of the keyed off-screen canvas) and restore, the
\* last two not reached when applyChromaKey throws.
LayerCalls(key) ==
    IF DrawSource(key) = "none" THEN << >>
    ELSE IF DrawSource(key) = "placeholder"
    THEN <<Call("save", key), Call("globalAlpha", key),
           Call("fillRect", key), Call("strokeRect", key),
           Call("fillText", key), Call("fillText", key),
           Call("restore", key)>>
    ELSE IF DrawLayerThrows(key)
    THEN <<Call("save", key), Call("globalAlpha", key)>>
    ELSE <<Call("save", key), Call("globalAlpha", key),
           Call("drawImage", key), Call("restore", key)>>

\* The calls of the drawLayer calls of draw() from the j-th on; an
\* exception ends the frame.
RECURSIVE DrawCallsFrom(_)
DrawCallsFrom(j) ==
    IF j > Len(LayerOrder) THEN << >>
    ELSE LayerCalls(LayerOrder[j])
            \o (IF DrawLayerThrows(LayerOrder[j]) THEN << >>
                ELSE DrawCallsFrom(j + 1))

\* The calls one draw() makes on this.ctx: clearRect, then the layers.
DrawCalls == <<Call("clearRect", "canvas")>> \o DrawCallsFrom(1)

\* The depth of the context's stack of saved states after the calls,
\* counted from the depth before them.
RECURSIVE SavedDepth(_)
SavedDepth(calls) ==
    IF calls = << >> THEN 0
    ELSE SavedDepth(Tail(calls))
           + (IF Head(calls).op = "save" THEN 1
              ELSE IF Head(calls).op = "restore" THEN 0 - 1
              ELSE 0)

\* One tick of render: draw(), then requestAnimationFrame(render), which
\* is not reached when draw() throws.
Render ==
    /\ rafPending
    /\ rafPending' = (FirstThrow = 4)
    /\ UNCHANGED <<layers, elems, loads, posterTimers, selectedLayer,
                   duration, isPlaying, isExporting, overlayHidden, progress,
                   supported, sessions, downloads, resolution,
                   edits, offCanvas>>

\* ---------------------------------------------------------- applyChromaKey
\* Whole numbers too large for one machine word, as their digits in base
\* BigBase, lowest first; they carry the squares the comparisons below need.
BigBase == 10000

RECURSIVE Big(_)
Big(n) == IF n < BigBase THEN <<n>> ELSE <<n % BigBase>> \o Big(n \div BigBase)

BigDigit(a, i) == IF i \in DOMAIN a THEN a[i] ELSE 0

RECURSIVE BigColumn(_, _, _, _)
BigColumn(a, b, i, j) ==
    IF j = 0 THEN 0
    ELSE BigDigit(a, j) * BigDigit(b, i + 1 - j) + BigColumn(a, b, i, j - 1)

RECURSIVE BigCarry(_, _, _, _)
BigCarry(a, b, i, carry) ==
    IF i > Len(a) + Len(b) THEN << >>
    ELSE LET t == BigColumn(a, b, i, i) + carry
         IN  <<t % BigBase>> \o BigCarry(a, b, i + 1, t \div BigBase)

BigTimes(a, b) == BigCarry(a, b, 1, 0)

\* -1, 0 or 1 as a < b, a = b or a > b, comparing from digit i down
RECURSIVE BigCompare(_, _, _)
BigCompare(a, b, i) ==
    IF i = 0 THEN 0
    ELSE IF BigDigit(a, i) < BigDigit(b, i) THEN 0 - 1
    ELSE IF BigDigit(a, i) > BigDigit(b, i) THEN 1
    ELSE BigCompare(a, b, i - 1)

\* The normaliser 441.67, in hundredths.
MaxDistanceCents == 44167
\* The width 0.05 of the feather band, and the full alpha 255.
FeatherBand == Num(1, 20)
FullAlpha == 255

\* parseInt(targetHex.slice(i, i + 2), 16) for two hexadecimal digits
HexDigit(c) ==
    CASE c = "0" -> 0 [] c = "1" -> 1 [] c = "2" -> 2 [] c = "3" -> 3
      [] c = "4" -> 4 [] c = "5" -> 5 [] c = "6" -> 6 [] c = "7" -> 7
      [] c = "8" -> 8 [] c = "9" -> 9 [] c = "a" -> 10 [] c = "b" -> 11
      [] c = "c" -> 12 [] c = "d" -> 13 [] c = "e" -> 14 [] c = "f" -> 15
ParseHex(targetHex, first) ==
    16 * HexDigit(targetHex[first + 1]) + HexDigit(targetHex[first + 2])

\* Math.pow(r - rT, 2) + Math.pow(g - gT, 2) + Math.pow(b - bT, 2)
SquaredDistance(px, targetHex) ==
    LET dr == px.r - ParseHex(targetHex, 1)
        dg == px.g - ParseHex(targetHex, 3)
        db == px.b - ParseHex(targetHex, 5)
    IN  dr * dr + dg * dg + db * db

\* A slip in the distance: the division by 441.67 is left out, so the
\* tolerance is compared with the distance itself.
CompareDiffUnnormalised(squared, q) ==
    IF q.n < 0 THEN 1
    ELSE LET left == BigTimes(Big(squared), BigTimes(Big(q.d), Big(q.d)))
             right == BigTimes(Big(q.n), Big(q.n))
         IN  BigCompare(left, right, Len(left) + Len(right))

\* -1, 0 or 1 as diff = Math.sqrt(squared) / 441.67 is below, at or above
\* the finite number q: for q > 0 the two sides are compared as
\* squared * (100 * q.d)^2 and (44167 * q.n)^2.
CompareDiff(squared, q) ==
    IF q.n < 0 THEN 1
    ELSE LET scale == Big(100 * q.d)
             left == BigTimes(Big(squared), BigTimes(scale, scale))
             bound == BigTimes(Big(MaxDistanceCents), Big(q.n))
             right == BigTimes(bound, bound)
         IN  BigCompare(left, right, Len(left) + Len(right))

\* diff < q as JavaScript decides it: false for NaN, true for Infinity
DiffBelow(squared, q) ==
    IF q.d = 0 THEN q.n > 0 ELSE CompareDiff(squared, Lowest(q)) < 0

\* A slip in the ramp: it runs from 255 at the tolerance down to 0 at
\* tolerance + 0.05, ((tolerance + 0.05 - diff) / 0.05) * 255.
FeatherAlphaFalling(squared, tolerance) ==
    LET step == 2 * FullAlpha * FeatherBand.d
        near == {a \in 0..FullAlpha :
                   /\ CompareDiff(squared,
                         Plus(tolerance, Num(2 * a - 1, step))) >= 0
                   /\ CompareDiff(squared,
                         Plus(tolerance, Num(2 * a + 1, step))) <= 0}
    IN  IF Cardinality(near) = 1 THEN FullAlpha - (CHOOSE a \in near : TRUE)
        ELSE FullAlpha - (CHOOSE a \in near : a % 2 = 0)

\* What data[i + 3] reads after ((diff - tolerance) / 0.05) * 255 has been
\* stored in the Uint8ClampedArray: the nearest whole number, the even one
\* of two that are equally near.  In the feather band the value is in
\* [0, 255); a is within a half of it when diff is between
\* tolerance + (2a - 1) / 10200 and tolerance + (2a + 1) / 10200.
FeatherAlpha(squared, tolerance) ==
    LET step == 2 * FullAlpha * FeatherBand.d
        near == {a \in 0..FullAlpha :
                   /\ CompareDiff(squared,
                         Plus(tolerance, Num(2 * a - 1, step))) >= 0
                   /\ CompareDiff(squared,
                         Plus(tolerance, Num(2 * a + 1, step))) <= 0}
    IN  IF Cardinality(near) = 1 THEN CHOOSE a \in near : TRUE
        ELSE CHOOSE a \in near : a % 2 = 0

\* A slip in the loop: a pixel beyond the feather band has its alpha set to
\* 255 instead of being left alone.
KeyPixelOpaqueBeyond(px, targetHex, tolerance) ==
    LET squared == SquaredDistance(px, targetHex)
    IN  IF DiffBelow(squared, tolerance)
        THEN [px EXCEPT !.a = 0]
        ELSE IF DiffBelow(squared, Plus(tolerance, FeatherBand))
        THEN [px EXCEPT !.a = FeatherAlpha(squared, tolerance)]
        ELSE [px EXCEPT !.a = FullAlpha]

\* The body of the loop of applyChromaKey for one pixel.
KeyPixel(px, targetHex, tolerance) ==
    LET squared == SquaredDistance(px, targetHex)
    IN  IF DiffBelow(squared, tolerance)
        THEN [px EXCEPT !.a = 0]
        ELSE IF DiffBelow(squared, Plus(tolerance, FeatherBand))
        THEN [px EXCEPT !.a = FeatherAlpha(squared, tolerance)]
        ELSE px

\* applyChromaKey(el, x, y, w, h, targetHex, tolerance) on the frame the
\* off-screen canvas holds after offCtx.drawImage(el, 0, 0).
ApplyChromaKey(targetHex, tolerance) ==
    /\ offCanvas' = [offCanvas EXCEPT
                       !.data = KeyPixel(offCanvas.drawn, targetHex, tolerance),
                       !.keyed = TRUE]
    /\ UNCHANGED <<layers, elems, loads, posterTimers, selectedLayer,
                   duration, isPlaying, isExporting, overlayHidden, progress,
                   supported, sessions, downloads, rafPending, resolution,
                   edits>>

\* applyChromaKey on the next frame of the source: offCtx.drawImage(el, 0, 0)
\* replaces the frame on the off-screen canvas by one holding the pixel px,
\* and the loop keys it.
KeyNextFrame(px, targetHex, tolerance) ==
    /\ offCanvas' = [drawn |-> px,
                     data |-> KeyPixel(px, targetHex, tolerance),
                     keyed |-> TRUE]
    /\ UNCHANGED <<layers, elems, loads, posterTimers, selectedLayer,
                   duration, isPlaying, isExporting, overlayHidden, progress,
                   supported, sessions, downloads, rafPending, resolution,
                   edits>>

\* ------------------------------------------------------------- exportVideo
\* (this.layers.background.element?.duration || 5) * 1000
TargetDuration ==
    LET id == layers["background"].element
        d == IF id = NoElem THEN Undef ELSE elems[id].dur
    IN  IF Truthy(d) THEN d ELSE Fin(DefaultSeconds * MsPerSecond)

\* A slip in the fallback: the type changes, the extension does not.
ChooseTypeKeepsExtension ==
    IF Mp4Type \in supported
    THEN [mimeType |-> Mp4Type, extension |-> "mp4"]
    ELSE [mimeType |-> WebmType, extension |-> "mp4"]

\* Codec selection: MP4 first, WebM when isTypeSupported rejects MP4.
ChooseType ==
    IF Mp4Type \in supported
    THEN [mimeType |-> Mp4Type, extension |-> "mp4"]
    ELSE [mimeType |-> WebmType, extension |-> "webm"]

\* new MediaRecorder(stream, options) throws NotSupportedError for a type
\* the runtime cannot record.
RecorderThrows(options) == options.mimeType \notin supported

\* The try block of the forEach: createMediaElementSource throws for an
\* element that already feeds a source node, or for a reason of the
\* environment (envFail).
RoutingThrows(k, envFail) ==
    k \in envFail \/ elems[layers[k].element].bound

\* A slip in the try block: hasAudio set before the calls that may throw.
HasAudioSetFirst(envFail) == VideoLayers # {}

\* hasAudio after the forEach: set inside the try, after the routing calls
HasAudio(envFail) == \E k \in VideoLayers : ~RoutingThrows(k, envFail)

\* A slip in the forEach: the playback position is not reset.
StartForExportKeepsPosition(e, isRouted) ==
    [e EXCEPT !.muted = FALSE, !.paused = FALSE,
              !.bound = @ \/ isRouted]

\* What the forEach of exportVideo does to the element of a video layer:
\* currentTime = 0, muted = false, the routing when it does not throw,
\* and play().
StartForExport(e, isRouted) ==
    [e EXCEPT !.rewound = TRUE, !.muted = FALSE, !.paused = FALSE,
              !.bound = @ \/ isRouted]

\* exportVideo(): it has no await, so it runs to its end, or to the
\* exception of the MediaRecorder constructor, in one step.
ExportVideo ==
    /\ Len(sessions) < MaxExports
    /\ \E envFail \in SUBSET VideoLayers :
         LET vids == {layers[k].element : k \in VideoLayers}
             routed == {layers[k].element :
                           k \in {v \in VideoLayers : ~RoutingThrows(v, envFail)}}
             options == ChooseType
             threw == RecorderThrows(options)
         IN  /\ elems' = [i \in DOMAIN elems |->
                    IF i \in vids
                    THEN StartForExport(elems[i], i \in routed)
                    ELSE elems[i]]
             /\ sessions' = Append(sessions,
                    [pc |-> IF threw THEN "threw" ELSE "capturing",
                     background |-> layers["background"].element,
                     target |-> TargetDuration,
                     elapsed |-> 0,
                     mimeType |-> options.mimeType,
                     extension |-> options.extension,
                     hasAudio |-> HasAudio(envFail),
                     audioCtx |-> "running",
                     routed |-> routed,
                     skipped |-> vids \ routed,
                     played |-> vids,
                     stops |-> 0,
                     timer |-> IF threw THEN "none" ELSE "running",
                     envFail |-> {layers[k].element : k \in envFail},
                     emitted |-> 0,
                     chunks |-> << >>])
    /\ isExporting' = TRUE
    /\ overlayHidden' = FALSE
    /\ UNCHANGED <<layers, loads, posterTimers, selectedLayer, duration,
                   isPlaying, progress, supported, downloads, rafPending,
                   resolution,
                   edits, offCanvas>>

\* Math.min(Math.round((elapsed / duration) * 100), 99)
Prog(elapsed, target) ==
    IF target.k = "Infinity" THEN 0
    ELSE Min(Round(elapsed * 100, target.ms), MaxProgress)

\* An off-by-one tick: the stop fires when the next tick would reach it.
StopConditionOneTickEarly(elapsed, target) ==
    target.k = "finite" /\ elapsed + TickMs >= target.ms

\* elapsed >= duration
StopCondition(elapsed, target) ==
    target.k = "finite" /\ elapsed >= target.ms

\* A slip in the callback: clearInterval(interval) is left out.
ProgressTickKeepsTimer(i) ==
    /\ i \in DOMAIN sessions
    /\ sessions[i].timer = "running"
    /\ LET elapsed == sessions[i].elapsed + TickMs
           stop == StopCondition(elapsed, sessions[i].target)
           vids == {layers[k].element : k \in VideoLayers}
       IN  /\ progress' = Prog(elapsed, sessions[i].target)
           /\ sessions' = [sessions EXCEPT ![i] =
                  [@ EXCEPT !.elapsed = elapsed,
                            !.pc = IF stop /\ @ = "capturing"
                                   THEN "stopping" ELSE @,
                            !.stops = IF stop THEN @ + 1 ELSE @]]
           /\ elems' = IF stop
                       THEN [e \in DOMAIN elems |->
                               IF e \in vids
                               THEN [elems[e] EXCEPT !.paused = TRUE]
                               ELSE elems[e]]
                       ELSE elems
    /\ UNCHANGED <<layers, loads, posterTimers, selectedLayer, duration,
                   isPlaying, isExporting, overlayHidden, supported,
                   downloads, rafPending, resolution,
                   edits, offCanvas>>

\* One tick of the setInterval callback of session i; the interval runs
\* until clearInterval(interval).
ProgressTick(i) ==
    /\ i \in DOMAIN sessions
    /\ sessions[i].timer = "running"
    /\ LET elapsed == sessions[i].elapsed + TickMs
           stop == StopCondition(elapsed, sessions[i].target)
           vids == {layers[k].element : k \in VideoLayers}
       IN  /\ progress' = Prog(elapsed, sessions[i].target)
           /\ sessions' = [sessions EXCEPT ![i] =
                  [@ EXCEPT !.elapsed = elapsed,
                            !.timer = IF stop THEN "cleared" ELSE @,
                            !.pc = IF stop /\ @ = "capturing"
                                   THEN "stopping" ELSE @,
                            !.stops = IF stop THEN @ + 1 ELSE @]]
           /\ elems' = IF stop
                       THEN [e \in DOMAIN elems |->
                               IF e \in vids
                               THEN [elems[e] EXCEPT !.paused = TRUE]
                               ELSE elems[e]]
                       ELSE elems
    /\ UNCHANGED <<layers, loads, posterTimers, selectedLayer, duration,
                   isPlaying, isExporting, overlayHidden, supported,
                   downloads, rafPending, resolution,
                   edits, offCanvas>>

\* A slip in the handler: the newest chunk is put in front.
OnDataAvailablePrepends(chunks, data) == <<data>> \o chunks

\* recorder.ondataavailable: chunks.push(e.data)
OnDataAvailable(chunks, data) == Append(chunks, data)

\* The recorder of session i delivers data while it records: the blob
\* number emitted + 1 of that recorder goes to the session's handler.
DataAvailable(i) ==
    /\ i \in DOMAIN sessions
    /\ sessions[i].pc = "capturing"
    /\ sessions[i].emitted < MaxChunks
    /\ sessions' = [sessions EXCEPT ![i] =
           [@ EXCEPT !.emitted = @ + 1,
                     !.chunks = OnDataAvailable(@,
                                   [recorder |-> i,
                                    blob |-> sessions[i].emitted + 1])]]
    /\ UNCHANGED <<layers, elems, loads, posterTimers, selectedLayer,
                   duration, isPlaying, isExporting, overlayHidden, progress,
                   supported, downloads, rafPending, resolution,
                   edits, offCanvas>>

\* A slip in the teardown: audioCtx.close() is left out.
RecorderOnStopLeavesContext(i) ==
    /\ i \in DOMAIN sessions
    /\ sessions[i].pc = "stopping"
    /\ LET chunks == OnDataAvailable(sessions[i].chunks,
                         [recorder |-> i, blob |-> sessions[i].emitted + 1])
       IN  /\ downloads' = Append(downloads,
                  [session |-> i, type |-> sessions[i].mimeType,
                   name |-> <<"composite_export_", sessions[i].extension>>,
                   parts |-> chunks])
           /\ sessions' = [sessions EXCEPT ![i] =
                  [@ EXCEPT !.pc = "done",
                            !.emitted = @ + 1, !.chunks = chunks]]
    /\ overlayHidden' = TRUE
    /\ isExporting' = FALSE
    /\ elems' = [e \in DOMAIN elems |->
                   IF e \in {layers[k].element : k \in VideoLayers}
                   THEN [elems[e] EXCEPT !.muted = TRUE]
                   ELSE elems[e]]
    /\ UNCHANGED <<layers, loads, posterTimers, selectedLayer, duration,
                   isPlaying, progress, supported, rafPending,
                   resolution,
                   edits, offCanvas>>

\* The task the recorder queues when it is stopped: it delivers the data
\* gathered since the last blob to ondataavailable and then fires stop.
\* recorder.onstop of session i: the download, then the teardown.
RecorderOnStop(i) ==
    /\ i \in DOMAIN sessions
    /\ sessions[i].pc = "stopping"
    /\ LET chunks == OnDataAvailable(sessions[i].chunks,
                         [recorder |-> i, blob |-> sessions[i].emitted + 1])
       IN  /\ downloads' = Append(downloads,
                  [session |-> i, type |-> sessions[i].mimeType,
                   name |-> <<"composite_export_", sessions[i].extension>>,
                   parts |-> chunks])
           /\ sessions' = [sessions EXCEPT ![i] =
                  [@ EXCEPT !.pc = "done", !.audioCtx = "closed",
                            !.emitted = @ + 1, !.chunks = chunks]]
    /\ overlayHidden' = TRUE
    /\ isExporting' = FALSE
    /\ elems' = [e \in DOMAIN elems |->
                   IF e \in {layers[k].element : k \in VideoLayers}
                   THEN [elems[e] EXCEPT !.muted = TRUE]
                   ELSE elems[e]]
    /\ UNCHANGED <<layers, loads, posterTimers, selectedLayer, duration,
                   isPlaying, progress, supported, rafPending,
                   resolution,
                   edits, offCanvas>>

\* ---------------------------------------------------------- specifications
\* The program of a user who selects files, plays and pauses, and exports:
\* at most MaxUserOps files and export clicks in all, and MaxTicks ticks
\* of each export's timer.
Next ==
    \/ \E k \in LayerKeys, f \in Files :
          Len(elems) + Len(sessions) < MaxUserOps /\ HandleUpload(k, f)
    \/ \E p \in loads : LoadCallback(p)
    \/ \E t \in posterTimers : PosterTimer(t)
    \/ TogglePlayback
    \/ Render
    \/ Len(elems) + Len(sessions) < MaxUserOps /\ ExportVideo
    \/ \E i \in DOMAIN sessions :
          sessions[i].elapsed < MaxTicks * TickMs /\ ProgressTick(i)
    \/ \E i \in DOMAIN sessions : RecorderOnStop(i)

Spec == Init /\ [][Next]_vars

\* Longer runs of a user who only selects files and exports: MaxUploads
\* files and MaxExports export clicks.
DeepNext ==
    \/ \E k \in LayerKeys, f \in Files : HandleUpload(k, f)
    \/ \E p \in loads : LoadCallback(p)
    \/ \E t \in posterTimers : PosterTimer(t)
    \/ Render
    \/ ExportVideo
    \/ \E i \in DOMAIN sessions :
          sessions[i].elapsed < MaxTicks * TickMs /\ ProgressTick(i)
    \/ \E i \in DOMAIN sessions : RecorderOnStop(i)

DeepSpec == Init /\ [][DeepNext]_vars

\* The preview: files, the chroma toggle, play and pause, and the render
\* loop, with no export.
PreviewNext ==
    \/ \E k \in LayerKeys, f \in Files : HandleUpload(k, f)
    \/ \E p \in loads : LoadCallback(p)
    \/ \E t \in posterTimers : PosterTimer(t)
    \/ ChromaToggle
    \/ TogglePlayback
    \/ Render

PreviewSpec == Init /\ [][PreviewNext]_vars

\* The export pipeline on its own, when no file is selected: every tick of
\* every timer is followed to the end.  The timers and the recorder's
\* stop event are delivered by the event loop, hence the weak fairness.
ExportNext ==
    \/ ExportVideo
    \/ \E i \in DOMAIN sessions : ProgressTick(i)
    \/ \E i \in DOMAIN sessions : RecorderOnStop(i)
    \/ TogglePlayback
    \/ Render

ExportSpec ==
    /\ Init
    /\ [][ExportNext]_vars
    /\ \A i \in 1..MaxExports :
          WF_vars(ProgressTick(i)) /\ WF_vars(RecorderOnStop(i))

\* The program of Spec with the passing of time on the videos that play.
PlayNext ==
    \/ Next
    \/ \E id \in DOMAIN elems : Playback(id)

PlaySpec == Init /\ [][PlayNext]_vars

\* Recording: one file for the background, up to MaxExports exports, and
\* recorders that deliver up to MaxChunks blobs each before they are
\* stopped.
RecordNext ==
    \/ \E f \in Files : Len(elems) = 0 /\ HandleUpload("background", f)
    \/ \E p \in loads : LoadCallback(p)
    \/ ExportVideo
    \/ \E i \in DOMAIN sessions :
          sessions[i].elapsed < MaxTicks * TickMs /\ ProgressTick(i)
    \/ \E i \in DOMAIN sessions : DataAvailable(i)
    \/ \E i \in DOMAIN sessions : RecorderOnStop(i)

RecordSpec == Init /\ [][RecordNext]_vars

\* What the user types or picks in the controls while editing.
PositionTexts == {"-3", "7"}
ScaleTexts == {"0.5", "2"}
OpacityTexts == {"0", "0.5"}
ToleranceTexts == {"0.05", "0.5"}
ResolutionTexts == {"1920x1080", "1080x1920", "1080x1080"}
KeyColors ==
    { <<"#", "f", "f", "0", "0", "0", "0">>,
      <<"#", "0", "0", "0", "0", "f", "f">> }

\* The user may still select a file or use a control.
CanEdit == Len(elems) + edits < MaxEdits

\* Editing: files, the layer selection, the controls with values of their
\* ranges, the resolution, the quick actions and the render loop; at
\* most MaxEdits files and control inputs in all.
EditNext ==
    \/ \E k \in LayerKeys, f \in Files : CanEdit /\ HandleUpload(k, f)
    \/ \E p \in loads : LoadCallback(p)
    \/ \E t \in posterTimers : PosterTimer(t)
    \/ Render
    \/ \E k \in LayerKeys : CanEdit /\ SelectLayer(k)
    \/ \E id \in {"posX", "posY"}, text \in PositionTexts :
          CanEdit /\ SharedControl(id, text)
    \/ \E text \in ScaleTexts : CanEdit /\ SharedControl("scale", text)
    \/ \E text \in OpacityTexts : CanEdit /\ SharedControl("opacity", text)
    \/ \E hex \in KeyColors : CanEdit /\ ChromaColor(hex)
    \/ \E text \in ToleranceTexts : CanEdit /\ ChromaTolerance(text)
    \/ \E text \in ResolutionTexts : CanEdit /\ ResolutionChange(text)
    \/ \E dimension \in {"height", "width"} : CanEdit /\ FitLayer(dimension)
    \/ CanEdit /\ Center

EditSpec == Init /\ [][EditNext]_vars

\* Layers with and without a source: files, the layer selection, the
\* chroma toggle, the opacity and scale controls and the render loop; at
\* most MaxEdits files and control inputs in all, the toggle apart.
SkipNext ==
    \/ \E k \in LayerKeys, f \in Files : CanEdit /\ HandleUpload(k, f)
    \/ \E p \in loads : LoadCallback(p)
    \/ Render
    \/ \E k \in LayerKeys : CanEdit /\ SelectLayer(k)
    \/ ChromaToggle
    \/ \E text \in OpacityTexts : CanEdit /\ SharedControl("opacity", text)
    \/ \E text \in ScaleTexts : CanEdit /\ SharedControl("scale", text)

SkipSpec == Init /\ [][SkipNext]_vars

\* What a number control can hold when nothing restricts it.
FieldTexts == {"", "-0.5", "0", "0.5", "1", "1.5"}

\* The number controls on their own, with any text in them.
FieldNext ==
    \/ \E k \in LayerKeys : CanEdit /\ SelectLayer(k)
    \/ \E text \in FieldTexts : CanEdit /\ SharedControl("scale", text)
    \/ \E text \in FieldTexts : CanEdit /\ SharedControl("opacity", text)
    \/ \E text \in FieldTexts : CanEdit /\ ChromaTolerance(text)

FieldSpec == Init /\ [][FieldNext]_vars

\* The pixels, target colours and tolerances the chroma key is tried on.
KeyPixels ==
    { [r |-> 0, g |-> 255, b |-> 0, a |-> 255],
      [r |-> 255, g |-> 0, b |-> 0, a |-> 255],
      [r |-> 10, g |-> 250, b |-> 5, a |-> 255],
      [r |-> 30, g |-> 215, b |-> 30, a |-> 255],
      [r |-> 30, g |-> 215, b |-> 30, a |-> 100],
      [r |-> 0, g |-> 0, b |-> 255, a |-> 255],
      [r |-> 255, g |-> 255, b |-> 255, a |-> 255],
      [r |-> 0, g |-> 0, b |-> 0, a |-> 0],
      [r |-> 49, g |-> 225, b |-> 10, a |-> 255],
      [r |-> 40, g |-> 235, b |-> 0, a |-> 255],
      [r |-> 50, g |-> 213, b |-> 6, a |-> 255] }
KeyTargets == KeyColors \cup {DefaultColor, <<"#", "1", "e", "d", "7", "1", "e">>}
KeyToleranceTexts == {"", "-0.5", "0", "0.05", "0.1", "0.5", "1", "1.5"}

\* The chroma key on its own: a layer with the key switched on, a target
\* colour and a tolerance, and a frame of one pixel on the off-screen
\* canvas; the render loop applies the key to it.
KeyInit ==
    /\ \E hex \in KeyTargets, text \in KeyToleranceTexts :
          layers = [k \in LayerKeys |->
                      IF k = "character"
                      THEN [NewLayer EXCEPT !.chromaKey = TRUE,
                                            !.chromaColor = hex,
                                            !.tolerance = ParseFloat(text)]
                      ELSE NewLayer]
    /\ \E px \in KeyPixels : offCanvas = [NewOffCanvas EXCEPT !.drawn = px]
    /\ elems = << >>
    /\ loads = {}
    /\ posterTimers = {}
    /\ selectedLayer = "character"
    /\ duration = Fin(0)
    /\ isPlaying = FALSE
    /\ isExporting = FALSE
    /\ overlayHidden = TRUE
    /\ progress = 0
    /\ supported = {Mp4Type, WebmType}
    /\ sessions = << >>
    /\ downloads = << >>
    /\ rafPending = TRUE
    /\ resolution = [width |-> CanvasWidth, height |-> CanvasHeight]
    /\ edits = 0

KeyNext ==
    \E k \in LayerKeys :
       /\ layers[k].chromaKey
       /\ ApplyChromaKey(layers[k].chromaColor, layers[k].tolerance)

KeySpec == KeyInit /\ [][KeyNext]_vars

\* The chroma key on successive frames: the render loop keys one frame
\* after another with the layer's target colour and tolerance.
FeatherNext ==
    \E k \in LayerKeys, px \in KeyPixels :
       /\ layers[k].chromaKey
       /\ KeyNextFrame(px, layers[k].chromaColor, layers[k].tolerance)

FeatherSpec == KeyInit /\ [][FeatherNext]_vars

\* -------------------------------------------------------------- properties
Active(i) == sessions[i].pc \in {"capturing", "stopping"}

DownloadsOf(i) == {n \in DOMAIN downloads : downloads[n].session = i}

\* C1: an export started on a background video of finite duration D stops
\* its recorder exactly once, at the first 100 ms tick whose elapsed time is
\* >= D and not before, triggers exactly one download, and at the stop
\* every layer that holds a video is paused.
C1_StopOnceAtDuration ==
    /\ [](\A i \in DOMAIN sessions :
            LET s == sessions[i]
            IN  (s.pc # "threw" /\ s.target.k = "finite") =>
                  /\ s.pc = "capturing" =>
                        s.stops = 0 /\ s.elapsed < s.target.ms
                  /\ s.pc \in {"stopping", "done"} =>
                        /\ s.stops = 1
                        /\ s.elapsed >= s.target.ms
                        /\ s.elapsed - TickMs < s.target.ms
                  /\ Cardinality(DownloadsOf(i)) =
                        IF s.pc = "done" THEN 1 ELSE 0)
    /\ [][\A i \in DOMAIN sessions :
            (sessions[i].pc = "capturing" /\ sessions'[i].pc = "stopping") =>
               \A k \in LayerKeys :
                  (layers'[k].type = "video" /\ layers'[k].element # NoElem)
                     => elems'[layers'[k].element].paused]_vars

\* C1's case: an export of the 250 ms background video has finished while
\* the background still holds it.
C1_Witness ==
    \E i \in DOMAIN sessions :
       /\ sessions[i].pc = "done"
       /\ sessions[i].background # NoElem
       /\ sessions[i].target = Fin(250)
       /\ sessions[i].elapsed = 300
       /\ layers["background"].element = sessions[i].background

\* C2: whenever the exporting flag is set it is eventually cleared and the
\* loading indicator hidden, on every path of exportVideo.
C2_ExportingEventuallyCleared ==
    isExporting ~> (~isExporting /\ overlayHidden)

\* C3: the values written to the progress readout never decrease and never
\* exceed 99, also while a second export runs beside one that has already
\* reported progress and has not been finalized.
C3_ProgressMonotone ==
    /\ [](progress <= MaxProgress)
    /\ [][(\E i \in DOMAIN sessions :
              /\ sessions[i].pc = "capturing"
              /\ sessions[i].elapsed > 0
              /\ Active(i)')
           => progress' >= progress]_vars

\* C4: the export uses MP4 with extension mp4 when the runtime supports
\* MP4 and WebM with extension webm otherwise, and every downloaded file
\* has the extension and the blob type of the type its export chose.
C4_CodecAndExtension ==
    /\ \A i \in DOMAIN sessions :
          IF Mp4Type \in supported
          THEN sessions[i].mimeType = Mp4Type /\ sessions[i].extension = "mp4"
          ELSE sessions[i].mimeType = WebmType /\ sessions[i].extension = "webm"
    /\ \A n \in DOMAIN downloads :
          /\ downloads[n].type = sessions[downloads[n].session].mimeType
          /\ downloads[n].name[1] = "composite_export_"
          /\ downloads[n].type = Mp4Type <=> downloads[n].name[2] = "mp4"
          /\ downloads[n].type = WebmType <=> downloads[n].name[2] = "webm"

\* C4's case: a file has been downloaded by an export that fell back to WebM.
C4_Witness ==
    \E n \in DOMAIN downloads :
       /\ Mp4Type \notin supported
       /\ downloads[n].type = WebmType
       /\ downloads[n].name[2] = "webm"

\* C5: the export target is the background's duration when that is a known
\* finite positive value and 5 seconds otherwise, so every export has a
\* finite target that its ticks reach.
C5_TargetDuration ==
    \A i \in DOMAIN sessions :
       LET d == IF sessions[i].background = NoElem THEN Undef
                ELSE elems[sessions[i].background].dur
       IN  sessions[i].target =
              IF d.k = "finite" /\ d.ms > 0 THEN d
              ELSE Fin(DefaultSeconds * MsPerSecond)

\* C6: the render loop never stops: after every render tick the next one
\* is scheduled, whatever the layers hold.
C6_RenderLoopAlive == rafPending

\* C7: audio routing that throws for any subset of the video layers is not
\* fatal: the failing layers are skipped yet played, the stream carries
\* audio exactly when some layer was routed, and an export does not end in
\* an exception unless the recorder itself rejects the chosen type.
C7_RoutingFailureNotFatal ==
    \A i \in DOMAIN sessions :
       LET s == sessions[i]
       IN  /\ s.hasAudio <=> s.routed # {}
           /\ s.routed \cap s.skipped = {}
           /\ s.played = s.routed \cup s.skipped
           /\ s.pc = "threw" => s.mimeType \notin supported
           /\ s.mimeType \in supported =>
                 s.pc \in {"capturing", "stopping", "done"}

\* C7's case: an export in which the routing of a video layer threw has
\* recorded without audio and has been finalized.
C7_Witness ==
    \E i \in DOMAIN sessions :
       /\ sessions[i].skipped # {}
       /\ ~sessions[i].hasAudio
       /\ sessions[i].pc = "done"
       /\ DownloadsOf(i) # {}

\* C8: codec negotiation never ends in an error: whatever the runtime
\* supports, exportVideo reaches a recording state.
C8_CodecNeverFails ==
    \A i \in DOMAIN sessions : sessions[i].pc # "threw"

\* C9: no frame rendered between an export's entry and its finalization
\* draws a layer from its poster frame.
C9_LiveFramesDuringExport ==
    (rafPending /\ \E i \in DOMAIN sessions : Active(i))
       => \A k \in LayerKeys : Draw[k] # "poster"

\* C10: a layer's posterFrame, if set, was captured from the source the
\* layer holds now.
C10_PosterOfCurrentSource ==
    \A k \in LayerKeys :
       layers[k].posterFrame # NoPoster =>
          layers[k].posterFrame.from = layers[k].element

\* C11 (as stated): immediately after a source load completes for a layer,
\* that layer has x = 0, y = 0 and scale = 1.
C11_LoadResetsGeometry ==
    [][\A p \in loads \ loads' :
          /\ SameNumber(layers'[p.layerKey].x, Zero)
          /\ SameNumber(layers'[p.layerKey].y, Zero)
          /\ SameNumber(layers'[p.layerKey].scale, One)]_vars

\* C11 (amended): immediately after a source load completes for a layer,
\* that layer holds the loaded source at x = 0 and y = 0, and its scale is
\* canvas height / natural height for a source taller than wide on a
\* canvas wider than tall, canvas width / natural width for a source wider
\* than tall on a canvas taller than wide, and 1 otherwise; a placeholder
\* is fitted this way on the background layer only.
C11_LoadCentresAndAutoFits ==
    [][\A p \in loads \ loads' :
          LET layer == layers'[p.layerKey]
              src == elems'[p.el]
              fitted == p.layerKey = "background" \/ src.kind # "placeholder"
          IN  /\ layer.element = p.el
              /\ SameNumber(layer.x, Zero)
              /\ SameNumber(layer.y, Zero)
              /\ SameNumber(layer.scale,
                    IF fitted /\ src.h > src.w
                              /\ resolution.height < resolution.width
                    THEN Num(resolution.height, src.h)
                    ELSE IF fitted /\ src.w > src.h
                                   /\ resolution.width < resolution.height
                    THEN Num(resolution.width, src.w)
                    ELSE One)]_vars

\* C11's case: on a canvas the user made taller than wide, a source wider
\* than tall has loaded and was fitted to the canvas' width.
C11_Witness ==
    \E k \in LayerKeys :
       /\ layers[k].element # NoElem
       /\ loads = {}
       /\ edits = 1
       /\ resolution.width < resolution.height
       /\ elems[layers[k].element].w > elems[layers[k].element].h
       /\ SameNumber(layers[k].scale,
                     Num(resolution.width, elems[layers[k].element].w))
       /\ ~SameNumber(layers[k].scale, One)

\* C12: in every reachable state each layer's scale is a finite number
\* strictly greater than 0.
C12_ScalePositive ==
    \A k \in LayerKeys : layers[k].scale.d > 0 /\ layers[k].scale.n > 0

\* C13: in every reachable state each layer's opacity and chroma-key
\* tolerance lie in [0, 1].
C13_OpacityAndToleranceInUnit ==
    \A k \in LayerKeys :
       /\ layers[k].opacity.d > 0
       /\ 0 <= layers[k].opacity.n /\ layers[k].opacity.n <= layers[k].opacity.d
       /\ layers[k].tolerance.d > 0
       /\ 0 <= layers[k].tolerance.n
       /\ layers[k].tolerance.n <= layers[k].tolerance.d

\* C14: in every reachable state each layer's type agrees with its
\* element: none exactly when it has no element, and otherwise
\* placeholder, video or image exactly when the element is a placeholder
\* object, a video element or an image.
C14_TypeMatchesElement ==
    \A k \in LayerKeys :
       LET layer == layers[k]
       IN  /\ layer.type \in {"none", "image", "video", "placeholder"}
           /\ layer.type = "none" <=> layer.element = NoElem
           /\ layer.element # NoElem =>
                 /\ layer.element \in DOMAIN elems
                 /\ layer.type = "placeholder" <=>
                       elems[layer.element].kind = "placeholder"
                 /\ layer.type = "video" <=>
                       elems[layer.element].kind = "video"
                 /\ layer.type = "image" <=>
                       elems[layer.element].kind = "image"

\* C14's case: two files were selected for one layer and the first one's
\* callback, a decode error, was delivered last: the layer holds its
\* placeholder.
C14_Witness ==
    \E k \in LayerKeys :
       /\ Len(elems) = 2
       /\ loads = {}
       /\ layers[k].element = 1
       /\ layers[k].type = "placeholder"
       /\ elems[2].kind \in {"video", "image"}
       /\ \A j \in LayerKeys : layers[j].element # 2

\* C15: in every reachable state the composition duration equals the
\* maximum known (finite) duration among the videos the layers hold now,
\* and 0 when they hold none.
C15_DurationOfCurrentSources ==
    LET known == {elems[layers[k].element].dur.ms :
                     k \in {v \in VideoLayers :
                               elems[layers[v].element].dur.k = "finite"}}
    IN  /\ duration.k = "finite"
        /\ \A ms \in known : duration.ms >= ms
        /\ duration.ms \in known \cup {0}
        /\ known = {} => duration.ms = 0

\* C16: selectedLayer always names one of the three layers and there are
\* always exactly these three; a step that moves the selection is a
\* selection click, which changes no layer, or the completion of a load,
\* which selects the layer it loaded and changes no other layer.
C16_SelectionAmongThree ==
    /\ [](selectedLayer \in LayerKeys /\ DOMAIN layers = LayerKeys)
    /\ [][selectedLayer' # selectedLayer =>
             /\ loads' = loads => layers' = layers
             /\ \A p \in loads \ loads' :
                   /\ selectedLayer' = p.layerKey
                   /\ \A k \in LayerKeys \ {p.layerKey} :
                         layers'[k] = layers[k]]_vars

\* C16's case: a load selected the layer it filled, then a click moved the
\* selection to a layer that is still empty.
C16_Witness ==
    /\ edits = 1
    /\ loads = {}
    /\ Len(elems) = 1
    /\ layers[selectedLayer].element = NoElem
    /\ \E k \in LayerKeys \ {"character"} : layers[k].element = 1
    /\ selectedLayer # "character"

\* C17: a resolution change sets the position of every layer to (0, 0)
\* and leaves every other field of every layer (scale, opacity, element,
\* type, chroma-key settings, poster frame) and the selected layer as they
\* were.
C17_ResolutionChangeCentres ==
    [][resolution' # resolution =>
          /\ selectedLayer' = selectedLayer
          /\ \A k \in LayerKeys :
                /\ SameNumber(layers'[k].x, Zero)
                /\ SameNumber(layers'[k].y, Zero)
                /\ [layers'[k] EXCEPT !.x = layers[k].x, !.y = layers[k].y]
                      = layers[k]]_vars

\* C17's case: the resolution has been changed after a layer had been
\* given another opacity, which it still has.
C17_Witness ==
    /\ resolution # [width |-> CanvasWidth, height |-> CanvasHeight]
    /\ edits = 2
    /\ \E k \in LayerKeys :
          /\ ~SameNumber(layers[k].opacity, One)
          /\ SameNumber(layers[k].x, Zero)
          /\ SameNumber(layers[k].y, Zero)

\* C18: fit-to-height on a selected layer that has a source sets that
\* layer's scale to canvas height / natural height and its position to
\* (0, 0), fit-to-width sets canvas width / natural width and (0, 0); both
\* leave the layer's other fields, the other layers, the selection and the
\* resolution as they were, and change no layer when the selected layer has
\* no source.
C18_FitSetsScaleAndCentres ==
    [][\A dimension \in {"height", "width"} :
          FitLayer(dimension) =>
             LET layer == layers[selectedLayer]
                 after == layers'[selectedLayer]
             IN  /\ selectedLayer' = selectedLayer
                 /\ resolution' = resolution
                 /\ \A k \in LayerKeys \ {selectedLayer} :
                       layers'[k] = layers[k]
                 /\ IF layer.element = NoElem
                    THEN after = layer
                    ELSE /\ SameNumber(after.scale,
                               IF dimension = "height"
                               THEN Num(resolution.height,
                                        elems[layer.element].h)
                               ELSE Num(resolution.width,
                                        elems[layer.element].w))
                         /\ SameNumber(after.x, Zero)
                         /\ SameNumber(after.y, Zero)
                         /\ after.opacity = layer.opacity
                         /\ [after EXCEPT !.scale = layer.scale,
                                          !.x = layer.x, !.y = layer.y]
                               = layer]_vars

\* C18's case: the 4 x 2 image, loaded at scale 1 on the 1920 x 1080
\* canvas, has been fitted to the canvas' height.
C18_Witness ==
    /\ edits = 1
    /\ layers[selectedLayer].element # NoElem
    /\ elems[layers[selectedLayer].element].h = 2
    /\ resolution.height = CanvasHeight
    /\ SameNumber(layers[selectedLayer].scale, Num(CanvasHeight, 2))
    /\ SameNumber(layers[selectedLayer].x, Zero)

\* C19: for every layer that is drawn (image, video, poster frame or
\* placeholder) with a scale that is a positive real, the centre of the
\* draw rectangle, its origin plus half its size, is the canvas' centre
\* plus (x, y); with x = y = 0 it is the canvas' centre.
C19_RectangleCentred ==
    \A k \in LayerKeys :
       (/\ DrawSource(k) # "none"
        /\ layers[k].scale.d > 0 /\ layers[k].scale.n > 0
        /\ layers[k].x.d > 0 /\ layers[k].y.d > 0) =>
          LET rect == DrawRect(k)
              cx == Plus(rect.x, Half(rect.w))
              cy == Plus(rect.y, Half(rect.h))
          IN  /\ SameNumber(cx, Plus(Num(resolution.width, 2), layers[k].x))
              /\ SameNumber(cy, Plus(Num(resolution.height, 2), layers[k].y))
              /\ (layers[k].x = Zero /\ layers[k].y = Zero) =>
                    /\ 2 * cx.n = resolution.width * cx.d
                    /\ 2 * cy.n = resolution.height * cy.d

\* C19's case: a layer that is drawn from its poster frame at a scale
\* other than 1 has been moved off the centre.
C19_Witness ==
    \E k \in LayerKeys :
       /\ DrawSource(k) = "poster"
       /\ rafPending
       /\ layers[k].x = Num(7, 1)
       /\ layers[k].scale.d > 0
       /\ ~SameNumber(layers[k].scale, One)
       /\ DrawRect(k).w.n > 0

\* C20: the chroma key gives alpha 0 to every pixel whose distance to the
\* target colour, divided by 441.67, is below the tolerance; a pixel equal
\* to the target colour gets alpha 0 for every tolerance > 0; with the
\* target (0, 255, 0) and the tolerance 0.1 a pure green pixel gets alpha 0
\* and a pure red pixel is left as it was.
C20_KeyMakesTransparent ==
    offCanvas.keyed =>
       \A k \in {j \in LayerKeys : layers[j].chromaKey} :
          LET px == offCanvas.drawn
              out == offCanvas.data
              hex == layers[k].chromaColor
              tol == layers[k].tolerance
              dr == px.r - ParseHex(hex, 1)
              dg == px.g - ParseHex(hex, 3)
              db == px.b - ParseHex(hex, 5)
              squared == Big(dr * dr + dg * dg + db * db)
              unit == Big(100 * tol.d)
              reach == BigTimes(Big(44167), Big(tol.n))
              left == BigTimes(squared, BigTimes(unit, unit))
              right == BigTimes(reach, reach)
              below == /\ tol.d > 0 /\ tol.n > 0
                       /\ BigCompare(left, right, Len(left) + Len(right)) < 0
          IN  /\ below => out.a = 0
              /\ (dr = 0 /\ dg = 0 /\ db = 0 /\ tol.d > 0 /\ tol.n > 0) =>
                    out.a = 0
              /\ (hex = DefaultColor /\ tol = Num(1, 10)) =>
                    /\ px = [r |-> 0, g |-> 255, b |-> 0, a |-> 255] =>
                          out = [px EXCEPT !.a = 0]
                    /\ px = [r |-> 255, g |-> 0, b |-> 0, a |-> 255] =>
                          out = px

\* C20's case: with the target (0, 255, 0) and the tolerance 0.1 the key
\* has been applied to a pixel near the target, (10, 250, 5), which is now
\* transparent.
C20_Witness ==
    /\ offCanvas.keyed
    /\ layers["character"].chromaKey
    /\ layers["character"].chromaColor = DefaultColor
    /\ layers["character"].tolerance = Num(1, 10)
    /\ offCanvas.drawn = [r |-> 10, g |-> 250, b |-> 5, a |-> 255]
    /\ offCanvas.data = [r |-> 10, g |-> 250, b |-> 5, a |-> 0]

\* -1, 0 or 1 as the distance from the pixel px to the colour hex, divided
\* by 441.67, is below, at or above the finite number q.
DistanceSign(px, hex, q) ==
    IF q.n < 0 THEN 1
    ELSE LET dr == px.r - ParseHex(hex, 1)
             dg == px.g - ParseHex(hex, 3)
             db == px.b - ParseHex(hex, 5)
             unit == Big(100 * q.d)
             reach == BigTimes(Big(44167), Big(q.n))
             left == BigTimes(Big(dr * dr + dg * dg + db * db),
                              BigTimes(unit, unit))
             right == BigTimes(reach, reach)
         IN  BigCompare(left, right, Len(left) + Len(right))

\* C21: for every target colour and every tolerance in [0, 1], a pixel
\* whose distance to the target colour, divided by 441.67, exceeds
\* tolerance + 0.05 comes out of the chroma key with its R, G, B and alpha
\* all unchanged.
C21_BeyondBandUnchanged ==
    offCanvas.keyed =>
       \A k \in {j \in LayerKeys : layers[j].chromaKey} :
          LET tol == layers[k].tolerance
              inUnit == tol.d > 0 /\ tol.n >= 0 /\ tol.n <= tol.d
          IN  (/\ inUnit
               /\ DistanceSign(offCanvas.drawn, layers[k].chromaColor,
                               Lowest(Num(20 * tol.n + tol.d, 20 * tol.d))) > 0)
              => offCanvas.data = offCanvas.drawn

\* C21's case: the key with the target (255, 0, 0) and the tolerance 0.1
\* has been applied to the half-transparent pixel (30, 215, 30, 100), far
\* from the target, and the pixel is as it was drawn.
C21_Witness ==
    /\ offCanvas.keyed
    /\ layers["character"].chromaKey
    /\ layers["character"].chromaColor = <<"#", "f", "f", "0", "0", "0", "0">>
    /\ layers["character"].tolerance = Num(1, 10)
    /\ offCanvas.drawn = [r |-> 30, g |-> 215, b |-> 30, a |-> 100]
    /\ offCanvas.data = offCanvas.drawn

\* Both frames of a step have been keyed, and the pixel of the first and
\* the pixel of the second are, in that order, at distances to the colour
\* hex that lie strictly between tol and tol + 0.05 after the division by
\* 441.67, the first distance below the second.
IncreasingInBand(hex, tol) ==
    LET first == offCanvas.drawn
        second == offCanvas'.drawn
        upper == Lowest(Num(20 * tol.n + tol.d, 20 * tol.d))
    IN  /\ offCanvas.keyed
        /\ offCanvas'.keyed
        /\ tol.d > 0
        /\ DistanceSign(first, hex, tol) > 0
        /\ DistanceSign(second, hex, tol) > 0
        /\ DistanceSign(first, hex, upper) < 0
        /\ DistanceSign(second, hex, upper) < 0
        /\ SquaredDistance(first, hex) < SquaredDistance(second, hex)

\* C22 as stated: of two pixels whose distances d1 < d2 both lie strictly
\* between tolerance and tolerance + 0.05, the second is stored with a
\* strictly greater alpha than the first.
C22_FeatherStrictlyIncreasing ==
    [][\A k \in {j \in LayerKeys : layers[j].chromaKey} :
          IncreasingInBand(layers[k].chromaColor, layers[k].tolerance) =>
             offCanvas'.data.a > offCanvas.data.a]_vars

\* C22, amended: of two pixels whose distances d1 < d2 both lie strictly
\* between tolerance and tolerance + 0.05, the second is stored with an
\* alpha that is not less than the first's; both alphas are in 0..255.
C22_FeatherNonDecreasing ==
    [][\A k \in {j \in LayerKeys : layers[j].chromaKey} :
          IncreasingInBand(layers[k].chromaColor, layers[k].tolerance) =>
             /\ offCanvas'.data.a >= offCanvas.data.a
             /\ offCanvas.data.a \in 0..255
             /\ offCanvas'.data.a \in 0..255]_vars

\* C22's case: with the target (0, 255, 0) and the tolerance 0.1, a frame
\* holding (50, 213, 6), high in the feather band, has been keyed to the
\* alpha 247 (a frame holding (40, 235, 0), low in the band, gets 6).
C22_Witness ==
    /\ offCanvas.keyed
    /\ layers["character"].chromaColor = DefaultColor
    /\ layers["character"].tolerance = Num(1, 10)
    /\ offCanvas.drawn = [r |-> 50, g |-> 213, b |-> 6, a |-> 255]
    /\ offCanvas.data.a = 247
    /\ KeyPixel([r |-> 40, g |-> 235, b |-> 0, a |-> 255],
                DefaultColor, Num(1, 10)).a = 6

\* C23: when the video file of a load does not decode, the layer holds
\* afterwards a placeholder with the file's name, 1280 x 720, of type
\* placeholder, and the composition duration is as before; a layer that
\* holds a placeholder never throws in the render loop, counts as no
\* duration for an export (the default 5 s when it is the background), and
\* no export plays it, unmutes it or routes its audio.
C23_PlaceholderOnDecodeFailure ==
    [][/\ \A p \in loads \ loads' :
             (elems[p.el].kind = "video" /\ ~elems[p.el].decodes) =>
                /\ layers'[p.layerKey].element = p.el
                /\ layers'[p.layerKey].type = "placeholder"
                /\ elems'[p.el].kind = "placeholder"
                /\ elems'[p.el].name = elems[p.el].name
                /\ elems'[p.el].w = 1280
                /\ elems'[p.el].h = 720
                /\ duration' = duration
       /\ \A k \in LayerKeys :
             layers'[k].type = "placeholder" =>
                LET id == layers'[k].element
                IN  /\ elems'[id].kind = "placeholder"
                    /\ elems'[id].paused
                    /\ ~elems'[id].bound
                    /\ elems'[id].muted = Placeholder(elems'[id].name).muted
                    /\ ~(DrawLayerThrows(k))'
                    /\ (FirstThrow = 4)' => Draw'[k] = "placeholder"
                    /\ k = "background" =>
                          TargetDuration' = Fin(DefaultSeconds * MsPerSecond)
                    /\ \A i \in DOMAIN sessions' :
                          id \notin (sessions'[i].played
                                       \cup sessions'[i].routed
                                       \cup sessions'[i].skipped)]_vars

\* C23's case: the background holds the placeholder of prores.mov, and an
\* export that runs for the default 5 s is capturing.
C23_Witness ==
    /\ layers["background"].type = "placeholder"
    /\ elems[layers["background"].element].name = "prores.mov"
    /\ \E i \in DOMAIN sessions :
          /\ sessions[i].pc = "capturing"
          /\ sessions[i].background = layers["background"].element
          /\ sessions[i].target = Fin(5000)
          /\ sessions[i].played = {}

\* C24: a video that a successful load installs in a layer is muted and
\* has loop switched on at that moment, and whenever isExporting is false
\* every video a layer holds is muted.
C24_InstalledVideosMutedAndLooping ==
    [][/\ \A p \in loads \ loads' :
             layers'[p.layerKey].type = "video" =>
                /\ layers'[p.layerKey].element = p.el
                /\ elems'[p.el].muted
                /\ elems'[p.el].loop
       /\ ~isExporting' =>
             \A k \in LayerKeys :
                (layers'[k].type = "video" /\ layers'[k].element # NoElem) =>
                   elems'[layers'[k].element].muted]_vars

\* C25: whenever isExporting is false the videos of the character and
\* overlay layers are paused, whatever toggles, uploads, export clicks,
\* timer ticks and stop callbacks came before; and a play/pause toggle
\* changes no element but the background's video.
C25_OnlyBackgroundPlaysOutsideExport ==
    [][/\ ~isExporting' =>
             \A k \in {"character", "overlay"} :
                (layers'[k].type = "video" /\ layers'[k].element # NoElem) =>
                   elems'[layers'[k].element].paused
       /\ isPlaying' # isPlaying =>
             \A id \in DOMAIN elems :
                id # layers["background"].element => elems'[id] = elems[id]]_vars

\* C26: at most one export is capturing or finalizing at any time, an
\* export click while one is active starts no second recorder, timer or
\* audio context, and isExporting is true whenever a recorder records.
C26_SingleExportSession ==
    /\ Cardinality({i \in DOMAIN sessions : Active(i)}) <= 1
    /\ Cardinality({i \in DOMAIN sessions :
                       sessions[i].timer = "running"}) <= 1
    /\ Cardinality({i \in DOMAIN sessions :
                       sessions[i].audioCtx = "running"
                       /\ sessions[i].pc # "threw"}) <= 1
    /\ (\E i \in DOMAIN sessions : sessions[i].pc = "capturing") => isExporting

\* C27: when recorder.onstop of an export has run, isExporting is false,
\* the audio context that export created is closed, and every layer whose
\* source is a video is muted; the context of a finished export stays
\* closed from then on.
C27_TeardownAfterStop ==
    [][\A i \in DOMAIN sessions :
          /\ (sessions[i].pc = "stopping" /\ sessions'[i].pc = "done") =>
                /\ ~isExporting'
                /\ sessions'[i].audioCtx = "closed"
                /\ \A k \in LayerKeys :
                      (layers'[k].type = "video"
                         /\ layers'[k].element # NoElem) =>
                         elems'[layers'[k].element].muted
          /\ sessions'[i].pc = "done" => sessions'[i].audioCtx = "closed"]_vars

\* C27's case: an export that routed the audio of a video has finished;
\* its context is closed, the flag is clear and the video is muted again.
C27_Witness ==
    /\ ~isExporting
    /\ \E i \in DOMAIN sessions :
          /\ sessions[i].pc = "done"
          /\ sessions[i].audioCtx = "closed"
          /\ sessions[i].routed # {}
    /\ \E k \in VideoLayers : elems[layers[k].element].muted

\* C28: the step of an export click leaves every video a layer holds at
\* position 0, unmuted and playing, before the recorder records, and
\* leaves every other element (an image, a placeholder, a video no layer
\* holds) and every layer as it was.
C28_ExportEntryResetsVideos ==
    [][Len(sessions') > Len(sessions) =>
          /\ layers' = layers
          /\ \A id \in DOMAIN elems :
                IF \E k \in LayerKeys :
                      layers[k].type = "video" /\ layers[k].element = id
                THEN /\ elems'[id].rewound
                     /\ ~elems'[id].muted
                     /\ ~elems'[id].paused
                     /\ sessions'[Len(sessions')].elapsed = 0
                     /\ sessions'[Len(sessions')].emitted = 0
                ELSE elems'[id] = elems[id]]_vars

\* C28's case: the background's video was playing in the preview when
\* the export was clicked; the export is at its start, and the video is
\* at position 0, unmuted and playing.
C28_Witness ==
    /\ isPlaying
    /\ "background" \in VideoLayers
    /\ \E i \in DOMAIN sessions :
          /\ sessions[i].pc = "capturing"
          /\ sessions[i].elapsed = 0
          /\ layers["background"].element \in sessions[i].played
    /\ elems[layers["background"].element].rewound
    /\ ~elems[layers["background"].element].muted
    /\ ~elems[layers["background"].element].paused

\* C29: once the stop condition of an export's timer has fired, the timer
\* is cleared and no tick of it runs again: the export's elapsed time and
\* its count of recorder.stop() calls stay as they are, the count is never
\* above one, and the progress text changes only by a tick of an export
\* whose stop condition has not fired.
C29_NoTickAfterStop ==
    [][/\ \A i \in DOMAIN sessions :
             sessions[i].stops >= 1 =>
                /\ sessions[i].timer = "cleared"
                /\ sessions'[i].timer = "cleared"
                /\ sessions'[i].elapsed = sessions[i].elapsed
                /\ sessions'[i].stops = 1
       /\ progress' # progress =>
             \E j \in DOMAIN sessions :
                /\ sessions[j].stops = 0
                /\ sessions'[j].elapsed = sessions[j].elapsed + TickMs]_vars

\* C29's case: an export's timer has fired its stop condition at 5 s and
\* is cleared, the recorder was stopped once, and the session has been
\* torn down.
C29_Witness ==
    \E i \in DOMAIN sessions :
       /\ sessions[i].pc = "done"
       /\ sessions[i].timer = "cleared"
       /\ sessions[i].stops = 1
       /\ sessions[i].elapsed = DefaultSeconds * MsPerSecond

\* C30: the file an export downloads holds exactly the blobs its own
\* recorder delivered between start and stop, each once and in the order
\* of delivery, and no blob of another export's recorder.
C30_FileIsOwnChunksInOrder ==
    \A n \in DOMAIN downloads :
       LET i == downloads[n].session
           parts == downloads[n].parts
       IN  /\ sessions[i].pc = "done"
           /\ Len(parts) = sessions[i].emitted
           /\ \A j \in DOMAIN parts :
                 parts[j] = [recorder |-> i, blob |-> j]

\* C30's case: two exports have downloaded their files; the recorder of
\* the first delivered three blobs and that of the second two.
C30_Witness ==
    /\ Len(downloads) = 2
    /\ \E n, m \in DOMAIN downloads :
          /\ downloads[n].session = 1
          /\ Len(downloads[n].parts) = 3
          /\ downloads[m].session = 2
          /\ Len(downloads[m].parts) = 2

\* C31: when recorder.onstop of an export has run (here with no other
\* export capturing or finalizing at that moment), every video element the
\* export unmuted and started at its entry is paused and muted, also when
\* the layer that held it has taken a new source in the meantime.
C31_StartedElementsStoppedAtEnd ==
    [][\A i \in DOMAIN sessions :
          (/\ sessions[i].pc = "stopping"
           /\ sessions'[i].pc = "done"
           /\ \A j \in DOMAIN sessions : j # i => ~Active(j)) =>
             \A id \in sessions[i].played :
                elems'[id].paused /\ elems'[id].muted]_vars

\* C32: when the last pending load of a layer completes, the layer holds
\* the source of the file selected last for it: elements are numbered in
\* the order of selection, so the element then held is neither older than
\* the one the callback brings nor older than the one held before.
C32_LastSelectedFileWins ==
    [][\A p \in loads \ loads' :
          (\A q \in loads' : q.layerKey # p.layerKey) =>
             /\ layers'[p.layerKey].element >= p.el
             /\ layers'[p.layerKey].element >= layers[p.layerKey].element]_vars

\* C33: whenever the background holds a video and isExporting is false,
\* isPlaying is true exactly when that video is playing.
C33_PlayingFlagMatchesBackground ==
    (/\ layers["background"].type = "video"
     /\ layers["background"].element # NoElem
     /\ ~isExporting) =>
       (isPlaying <=> ~elems[layers["background"].element].paused)

\* C34: a layer that a frame draws from a source other than a placeholder
\* is drawn from its cached poster frame exactly when isExporting is
\* false, the layer is not the background and the layer has a cached
\* poster frame; otherwise it is drawn from its live source.
C34_PosterExactlyInPreview ==
    \A k \in LayerKeys :
       Draw[k] \in {"poster", "live"} =>
          (Draw[k] = "poster" <=>
             (/\ ~isExporting
              /\ k # "background"
              /\ layers[k].posterFrame # NoPoster))

\* The place of a layer in the order background, character, overlay.
Place(key) ==
    IF key = "background" THEN 1 ELSE IF key = "character" THEN 2 ELSE 3

\* C35: the calls of a frame begin with clearRect, which is not called
\* again, and the calls for the layers follow in the order background,
\* character, overlay, whatever layer is selected, in whatever order the
\* sources were loaded and whether or not an export runs; when no layer
\* throws, every layer that has a source is drawn in the frame.
C35_ClearThenFixedOrder ==
    LET calls == DrawCalls
    IN  /\ calls[1] = [op |-> "clearRect", layer |-> "canvas"]
        /\ \A a \in 2..Len(calls) :
              /\ calls[a].op # "clearRect"
              /\ calls[a].layer \in LayerKeys
              /\ \A b \in a..Len(calls) :
                    Place(calls[a].layer) <= Place(calls[b].layer)
        /\ (\A k \in LayerKeys : ~DrawLayerThrows(k)) =>
              \A k \in LayerKeys :
                 layers[k].element # NoElem <=>
                    \E a \in 2..Len(calls) : calls[a].layer = k

\* C35's case: the overlay got its source first and the background
\* second, so the background is the selected layer, and the frame draws
\* the background before the overlay.
C35_Witness ==
    /\ layers["overlay"].element = 1
    /\ layers["background"].element = 2
    /\ selectedLayer = "background"
    /\ \E a, b \in 2..Len(DrawCalls) :
          /\ a < b
          /\ DrawCalls[a] = [op |-> "drawImage", layer |-> "background"]
          /\ DrawCalls[b] = [op |-> "drawImage", layer |-> "overlay"]

\* C36: a layer without a source makes a frame call nothing on the
\* drawing context (no draw call, no save, no change of the global alpha),
\* so the depth of saved states is as before, whatever the layer's
\* position, scale, opacity and chroma-key settings are.
C36_NoSourceNoCalls ==
    \A k \in LayerKeys :
       (layers[k].type = "none" \/ layers[k].element = NoElem) =>
          /\ LayerCalls(k) = << >>
          /\ SavedDepth(LayerCalls(k)) = 0
          /\ \A a \in DOMAIN DrawCalls : DrawCalls[a].layer # k

\* C36's case: the character layer has no source and its chroma key is
\* switched on, another layer has a source, and the frame draws that one
\* only.
C36_Witness ==
    /\ layers["character"].element = NoElem
    /\ layers["character"].chromaKey
    /\ \E k \in LayerKeys :
          /\ layers[k].element # NoElem
          /\ \E a \in DOMAIN DrawCalls : DrawCalls[a].layer = k
    /\ \A a \in DOMAIN DrawCalls : DrawCalls[a].layer # "character"

\* C37: when an export has finalized and a later export starts on the same
\* video elements, with no routing call failing for a reason of the
\* environment in either, the later export routes the audio of the same
\* elements as the earlier one and has audio whenever the earlier had.
C37_LaterExportRoutesSame ==
    [][(Len(sessions') = Len(sessions) + 1) =>
          \A i \in DOMAIN sessions :
             LET new == sessions'[Len(sessions')]
             IN  (/\ sessions[i].pc = "done"
                  /\ sessions[i].played = new.played
                  /\ sessions[i].envFail = {}
                  /\ new.envFail = {}) =>
                    /\ new.routed = sessions[i].routed
                    /\ sessions[i].hasAudio => new.hasAudio]_vars

\* C38: for every pixel, target colour and tolerance, the alpha the chroma
\* key leaves in a pixel is less than or equal to the alpha the pixel had
\* when it was drawn.
C38_KeyNeverRaisesAlpha ==
    offCanvas.keyed => offCanvas.data.a <= offCanvas.drawn.a

====
